---- MODULE Spec2Model ----
(***************************************************************************)
(* Calendar scheduling engine of the MCP server (domains/schedule.js) and  *)
(* of the LangChain calendar tools: readCalendar, checkCalendarConflicts,  *)
(* createCalendarEvent, deleteCalendarEvent and the helpers they use.      *)
(*                                                                         *)
(* Instants are minutes since 2025-07-01 00:00 in the process's local      *)
(* zone, which is taken to be UTC. 23:59:59.999 of a day is the last       *)
(* instant of that day, MinutesPerDay - 1 after its midnight. Strings that *)
(* the code searches (titles, UIDs, identifiers) are tuples of characters. *)
(* Every operation is a chain of awaits; one action is one store call (or  *)
(* the backoff sleep) together with the synchronous code that follows it   *)
(* up to the next await or the return.                                     *)
(***************************************************************************)
EXTENDS Integers, Sequences, FiniteSets, TLC

\* ------------------------------------------------------------------ bounds
\* How many times the clock may advance by a day in one behaviour.
MaxTicks == 1
\* The largest number of objects the remote calendar holds at the start.
MaxInitObjects == 2
\* How many objects the callers may create in one behaviour.
MaxCreates == 1
\* The instants 0..MaxInstant that the overlap test is tried on.
MaxInstant == 3
\* The longest attendee list that is validated.
MaxAttendees == 2
\* The largest N of "next N days" that is resolved.
MaxDays == 8
\* The largest hour H a time of day is written with.
MaxHour == 23

\* ------------------------------------------------------------------- time
MinutesPerDay == 24 * 60

Callers == {"c1", "c2"}

\* A day number (days since 2025-07-01) and a time of day as an instant.
At(day, h, m) == day * MinutesPerDay + h * 60 + m

Day(t) == t \div MinutesPerDay

\* Date.prototype.getDay(): 0 is Sunday. 2025-07-01 is a Tuesday.
getDay(t) == (Day(t) + 2) % 7

\* StartOfDay with the setHours call left out.
StartOfDay_Keep(t) == t

\* setHours(0, 0, 0, 0)
StartOfDay(t) == Day(t) * MinutesPerDay

\* EndOfDay as the midnight that follows the day.
EndOfDay_NextMidnight(t) == (Day(t) + 1) * MinutesPerDay

\* setHours(23, 59, 59, 999)
EndOfDay(t) == Day(t) * MinutesPerDay + (MinutesPerDay - 1)

\* The first day of each month from July 2025 on (day numbers), for
\* new Date(year, month, 1) and new Date(year, month + 1, 0, ...).
MonthStarts == <<0, 31, 62, 92, 123, 153, 184>>

MonthIndex(t) == CHOOSE k \in 1..(Len(MonthStarts) - 1) :
                    MonthStarts[k] <= Day(t) /\ Day(t) < MonthStarts[k + 1]

\* The reference instant of the spec's scenario: Monday 2025-07-14, 09:00.
StartInstant == At(13, 9, 0)

\* ---------------------------------------------------------------- phrases
\* A time-range phrase given to read_calendar. kind "other" is any text with
\* none of the recognised keywords in it (a date such as "07/15/2025").
RangePhrase(kind, n) == [kind |-> kind, n |-> n]

parseRelativeDate(input, now) ==
    CASE input.kind = "today" ->
            [start |-> StartOfDay(now), end |-> EndOfDay(now)]
      [] input.kind = "tomorrow" ->
            [start |-> StartOfDay(now + MinutesPerDay),
             end |-> EndOfDay(now + MinutesPerDay)]
      [] input.kind = "this week" ->
            LET dayOfWeek == getDay(now)
                diff == Day(now) - dayOfWeek + (IF dayOfWeek = 0 THEN -6 ELSE 1)
            IN [start |-> diff * MinutesPerDay,
                end |-> (diff + 6) * MinutesPerDay + (MinutesPerDay - 1)]
      [] input.kind = "next week" ->
            LET dayOfWeek == getDay(now)
                diff == Day(now) - dayOfWeek + (IF dayOfWeek = 0 THEN -6 ELSE 1)
            IN [start |-> (diff + 7) * MinutesPerDay,
                end |-> (diff + 7 + 6) * MinutesPerDay + (MinutesPerDay - 1)]
      [] input.kind = "this month" ->
            [start |-> MonthStarts[MonthIndex(now)] * MinutesPerDay,
             end |-> (MonthStarts[MonthIndex(now) + 1] - 1) * MinutesPerDay
                        + (MinutesPerDay - 1)]
      [] input.kind = "next month" ->
            [start |-> MonthStarts[MonthIndex(now) + 1] * MinutesPerDay,
             end |-> (MonthStarts[MonthIndex(now) + 2] - 1) * MinutesPerDay
                        + (MinutesPerDay - 1)]
      [] input.kind = "next N days" ->
            [start |-> StartOfDay(now),
             end |-> EndOfDay(now + input.n * MinutesPerDay)]
      [] OTHER ->
            [start |-> StartOfDay(now),
             end |-> EndOfDay(now + 7 * MinutesPerDay)]

\* A phrase for one instant, given as startTime or endTime.
\*   kind "tomorrow": the text contains "tomorrow";
\*   kind "next":     the text contains "next <weekday>", wd as getDay counts;
\*   kind "date":     any other text that new Date(text) parses, to instant t;
\*   kind "junk":     any other text.
\* hasTime says whether the text holds digits (the time regex matches), h and
\* m are the hour and minutes it captures and ap is "am", "pm" or "none".
PointPhrase(kind, t, wd, hasTime, h, m, ap) ==
    [kind |-> kind, t |-> t, wd |-> wd, hasTime |-> hasTime,
     h |-> h, m |-> m, ap |-> ap]

\* The hour the time-of-day rules give.
finalHours(h, ap) ==
    IF ap = "pm" /\ h # 12 THEN h + 12
    ELSE IF ap # "pm" /\ h = 12 THEN 0
    ELSE h

\* setHours(finalHours, minutes, 0, 0) on the day of t, when the time regex
\* matched; otherwise t keeps its time of day.
withTime(t, input) ==
    IF input.hasTime
    THEN StartOfDay(t) + finalHours(input.h, input.ap) * 60 + input.m
    ELSE t

parseDateTime(input, referenceDate) ==
    CASE input.kind = "tomorrow" ->
            withTime(referenceDate + MinutesPerDay, input)
      [] input.kind = "next" ->
            LET delta == (input.wd - getDay(referenceDate) + 7) % 7
                daysUntilTarget == IF delta = 0 THEN 7 ELSE delta
            IN withTime(referenceDate + daysUntilTarget * MinutesPerDay, input)
      [] input.kind = "date" -> input.t
      [] OTHER -> referenceDate

\* Check if two events overlap.
eventsOverlap_Inclusive(event1Start, event1End, event2Start, event2End) ==
    event1Start <= event2End /\ event1End >= event2Start

eventsOverlap(event1Start, event1End, event2Start, event2End) ==
    event1Start < event2End /\ event1End > event2Start

\* ---------------------------------------------------------------- strings
UpperCase == <<"A", "B", "C", "D", "E", "F", "G", "H", "I", "J", "K", "L", "M", "N", "O", "P", "Q", "R", "S", "T", "U", "V", "W", "X", "Y", "Z">>

LowerCase == <<"a", "b", "c", "d", "e", "f", "g", "h", "i", "j", "k", "l", "m", "n", "o", "p", "q", "r", "s", "t", "u", "v", "w", "x", "y", "z">>

toLowerChar(ch) ==
    IF \E i \in 1..Len(UpperCase) : UpperCase[i] = ch
    THEN LowerCase[CHOOSE i \in 1..Len(UpperCase) : UpperCase[i] = ch]
    ELSE ch

toLowerCase(s) == [i \in 1..Len(s) |-> toLowerChar(s[i])]

\* String.prototype.includes
includes(s, sub) ==
    \E i \in 0..(Len(s) - Len(sub)) : SubSeq(s, i + 1, i + Len(sub)) = sub

\* ------------------------------------------------------------------ codec
\* A date-time value as it stands after the colon of a DTSTART or DTEND line:
\*   form "compact":   YYYYMMDDTHHMMSS with an optional Z, for instant t;
\*   form "dateonly":  YYYYMMDD, the value of a ;VALUE=DATE line, for day t;
\*   form "valuedate": text that itself contains VALUE=DATE:YYYYMMDD;
\*   form "iso":       any other text new Date() parses, to instant t;
\*   form "junk":      any other text.
DateValue(form, t) == [form |-> form, t |-> t]

NoDate == DateValue("none", 0)

\* A parsed date: a Date object (ok) or null.
Parsed(t) == [ok |-> TRUE, t |-> t]

Null == [ok |-> FALSE, t |-> 0]

parseEventDateTime(dateStr) ==
    CASE dateStr.form = "compact" -> Parsed(dateStr.t)
      [] dateStr.form = "valuedate" -> Parsed(StartOfDay(dateStr.t))
      [] dateStr.form = "iso" -> Parsed(dateStr.t)
      [] OTHER -> Null

\* One logical line "KEY;params:value" of an object's text. A line holds text
\* (a tuple of characters) or a date value.
Line(key, params, text, date) ==
    [key |-> key, params |-> params, text |-> text, date |-> date]

TextLine(key, text) == Line(key, "", text, NoDate)

DateLine(key, params, date) == Line(key, params, <<>>, date)

\* The last line of data with the given main key, 0 when there is none: the
\* switch assigns the field again at every such line.
LastLine(data, key) ==
    LET S == {i \in 1..Len(data) : data[i].key = key}
    IN IF S = {} THEN 0 ELSE CHOOSE i \in S : \A j \in S : j <= i

\* String.prototype.trim
Whitespace == {" ", "\t", "\n", "\r"}

trim(s) ==
    LET S == {i \in 1..Len(s) : s[i] \notin Whitespace}
    IN IF S = {} THEN <<>>
       ELSE SubSeq(s, CHOOSE i \in S : \A j \in S : i <= j,
                      CHOOSE i \in S : \A j \in S : j <= i)

\* value.replace(/\\n/g, '\n'): a backslash and an n become a newline.
RECURSIVE unescapeNewlines(_)
unescapeNewlines(s) ==
    IF Len(s) < 2 THEN s
    ELSE IF s[1] = "\\" /\ s[2] = "n"
         THEN <<"\n">> \o unescapeNewlines(SubSeq(s, 3, Len(s)))
         ELSE <<s[1]>> \o unescapeNewlines(Tail(s))

\* The event record parseICalEvent builds. A field the text does not set is
\* undefined (has... is FALSE); start and end are null when unparsable. No
\* case of the switch reads ATTENDEE or ORGANIZER lines.
parseICalEvent(data) ==
    LET iS == LastLine(data, "SUMMARY")
        iU == LastLine(data, "UID")
        iA == LastLine(data, "DTSTART")
        iE == LastLine(data, "DTEND")
        iD == LastLine(data, "DESCRIPTION")
        iL == LastLine(data, "LOCATION")
        st == IF iA = 0 THEN Null ELSE parseEventDateTime(data[iA].date)
        en == IF iE = 0 THEN Null ELSE parseEventDateTime(data[iE].date)
    IN [hasSummary |-> iS # 0,
        summary |-> IF iS = 0 THEN <<>> ELSE trim(data[iS].text),
        hasUid |-> iU # 0,
        uid |-> IF iU = 0 THEN <<>> ELSE trim(data[iU].text),
        hasStart |-> st.ok, start |-> st.t,
        hasEnd |-> en.ok, end |-> en.t,
        hasDescription |-> iD # 0,
        description |-> IF iD = 0 THEN <<>> ELSE unescapeNewlines(trim(data[iD].text)),
        hasLocation |-> iL # 0,
        location |-> IF iL = 0 THEN <<>> ELSE trim(data[iL].text),
        hasAttendees |-> FALSE]

\* formatICalDate writes the UTC fields in the compact form.
formatICalDate(date) == DateValue("compact", date)

escapeICalChar(ch) ==
    CASE ch = "\\" -> <<"\\", "\\">>
      [] ch = ";" -> <<"\\", ";">>
      [] ch = "," -> <<"\\", ",">>
      [] ch = "\n" -> <<"\\", "n">>
      [] ch = "\r" -> <<>>
      [] OTHER -> <<ch>>

RECURSIVE escapeICalString(_)
escapeICalString(str) ==
    IF str = <<>> THEN <<>>
    ELSE escapeICalChar(Head(str)) \o escapeICalString(Tail(str))

\* String.prototype.endsWith and startsWith
endsWith(s, suffix) ==
    /\ Len(suffix) <= Len(s)
    /\ SubSeq(s, Len(s) - Len(suffix) + 1, Len(s)) = suffix

startsWith(s, prefix) ==
    /\ Len(prefix) <= Len(s)
    /\ SubSeq(s, 1, Len(prefix)) = prefix

exampleDomains ==
    { <<"e", "x", "a", "m", "p", "l", "e", ".", "c", "o", "m">>,
      <<"e", "x", "a", "m", "p", "l", "e", ".", "o", "r", "g">>,
      <<"t", "e", "s", "t", ".", "c", "o", "m">>,
      <<"d", "o", "m", "a", "i", "n", ".", "c", "o", "m">>,
      <<"c", "o", "m", "p", "a", "n", "y", ".", "c", "o", "m">>,
      <<"e", "m", "a", "i", "l", ".", "c", "o", "m">> }

examplePatterns ==
    { <<"j", "o", "h", "n", "@">>,
      <<"j", "a", "n", "e", "@">>,
      <<"u", "s", "e", "r", "@">>,
      <<"t", "e", "s", "t", "@">>,
      <<"a", "d", "m", "i", "n", "@">>,
      <<"d", "e", "m", "o", "@">> }

\* keepAttendee without the test of the example patterns.
keepAttendee_NoPatterns(email) ==
    /\ email # <<>>
    /\ includes(email, <<"@">>)
    /\ ~\E domain \in exampleDomains : endsWith(toLowerCase(email), domain)

\* The filter callback of validAttendees.
keepAttendee(email) ==
    /\ email # <<>>
    /\ includes(email, <<"@">>)
    /\ ~\E domain \in exampleDomains : endsWith(toLowerCase(email), domain)
    /\ ~\E pattern \in examplePatterns : startsWith(toLowerCase(email), pattern)

\* Process attendees with validation: trim each, keep the valid ones.
validAttendees(attendees) ==
    SelectSeq([i \in 1..Len(attendees) |-> trim(attendees[i])], keepAttendee)

\* One ATTENDEE line per valid attendee.
attendeeLines(valid) ==
    [i \in 1..Len(valid) |->
        Line("ATTENDEE", "CN", <<"mailto:">> \o valid[i], NoDate)]

\* The VEVENT lines createCalendarEvent joins into eventData. The DTSTAMP,
\* CREATED and LAST-MODIFIED lines, which hold the time of the call and which
\* parseICalEvent skips, are left out.
eventData(uid, email, summary, eventStart, eventEnd, description, location, valid) ==
    << TextLine("UID", uid),
       Line("ORGANIZER", "CN", email, NoDate),
       TextLine("SUMMARY", escapeICalString(summary)),
       DateLine("DTSTART", "", formatICalDate(eventStart)),
       DateLine("DTEND", "", formatICalDate(eventEnd)) >>
    \o (IF description # <<>>
        THEN <<TextLine("DESCRIPTION", escapeICalString(description))>> ELSE <<>>)
    \o (IF location # <<>>
        THEN <<TextLine("LOCATION", escapeICalString(location))>> ELSE <<>>)
    \o attendeeLines(valid)
    \o << TextLine("STATUS", <<"CONFIRMED">>) >>

\* ------------------------------------------------------------------ store
\* A calendar object as the store returns it: its locator and its text.
Object(url, data) == [url |-> url, data |-> data]

\* Objects other clients have put into the calendar.
ObjectPool ==
    { Object(<<"/", "1">>,
             << TextLine("UID", <<"u", "1">>),
                TextLine("SUMMARY", <<"A", "b">>),
                DateLine("DTSTART", "", DateValue("compact", At(14, 10, 0))),
                DateLine("DTEND", "", DateValue("compact", At(14, 11, 0))) >>),
      Object(<<"/", "2">>,
             << TextLine("UID", <<"u", "2">>),
                TextLine("SUMMARY", <<"a", "b", "x">>),
                DateLine("DTSTART", "", DateValue("compact", At(24, 10, 0))),
                DateLine("DTEND", "", DateValue("compact", At(24, 11, 0))) >>),
      Object(<<"/", "3">>,
             << TextLine("UID", <<"a", "b">>),
                TextLine("SUMMARY", <<"x">>),
                DateLine("DTSTART", "", DateValue("compact", At(12, 23, 0))),
                DateLine("DTEND", "", DateValue("compact", At(13, 10, 0))) >>),
      Object(<<"/", "4">>,
             << TextLine("SUMMARY", <<"b">>),
                DateLine("DTSTART", "VALUE=DATE", DateValue("dateonly", At(14, 0, 0))) >>) }

\* The sequences of distinct pool objects of length n.
RECURSIVE Arrangements(_)
Arrangements(n) ==
    IF n = 0 THEN {<<>>}
    ELSE { Append(s, o) : s \in Arrangements(n - 1), o \in ObjectPool }

Distinct(s) == \A i, j \in 1..Len(s) : i # j => s[i] # s[j]

InitialStores ==
    UNION { { s \in Arrangements(n) : Distinct(s) } : n \in 0..MaxInitObjects }

\* What the store's time-range query returns when the server applies the
\* filter exactly: the objects whose interval meets [range.start, range.end).
inTimeRange(obj, range) ==
    LET ev == parseICalEvent(obj.data)
    IN /\ ev.hasStart
       /\ ev.start < range.end
       /\ (IF ev.hasEnd THEN ev.end ELSE ev.start) > range.start

\* --------------------------------------------------------------- requests
\* An argument the caller left out (undefined).
Absent == "<absent>"

\* JavaScript truthiness of an optional string argument.
Truthy(x) == x # "" /\ x # Absent

\* The arguments of one tool call. Every field is there for every tool; a tool
\* reads only its own. timeRange is a range phrase, startTime and endTime are
\* point phrases, forceCreate is "true", "false" or Absent, eventIdentifier is
\* a tuple of characters or <<Absent>>.
Request(tool, conf, timeRange, startTime, endTime, summary, forceCreate, eventIdentifier) ==
    [tool |-> tool,
     caldavUrl |-> conf.caldavUrl, email |-> conf.email,
     password |-> conf.password, userTimezone |-> conf.userTimezone,
     timeRange |-> timeRange, startTime |-> startTime, endTime |-> endTime,
     summary |-> summary, forceCreate |-> forceCreate,
     eventIdentifier |-> eventIdentifier]

Conf(caldavUrl, email, password, userTimezone) ==
    [caldavUrl |-> caldavUrl, email |-> email, password |-> password,
     userTimezone |-> userTimezone]

GoodConf == Conf("https://dav.example", "me@acme.io", "secret", "Europe/Berlin")

BadConfs ==
    { Conf("https://dav.example", "me@acme.io", "secret", Absent),
      Conf("https://dav.example", "me@acme.io", "secret", ""),
      Conf(Absent, "me@acme.io", "secret", "Europe/Berlin"),
      Conf("https://dav.example", "me@acme.io", "", "Europe/Berlin"),
      Conf("", Absent, Absent, Absent) }

NoRange == RangePhrase("other", 0)

DatePhrase(t) == PointPhrase("date", t, 0, FALSE, 0, 0, "none")

Junk == PointPhrase("junk", 0, 0, FALSE, 0, 0, "none")

NoIdentifier == <<Absent>>

RangePhrases ==
    { RangePhrase("today", 0), RangePhrase("next N days", 7),
      RangePhrase("this week", 0), RangePhrase("this month", 0),
      RangePhrase("next month", 0) }

\* next Monday 10:00 to 11:00
NextMonday ==
    <<PointPhrase("next", 0, 1, TRUE, 10, 0, "am"),
      PointPhrase("next", 0, 1, TRUE, 11, 0, "none")>>

\* Proposed intervals: start and end phrases.
Proposals ==
    { \* 10:30-11:30 tomorrow, across the event 10:00-11:00 of that day
      <<DatePhrase(At(14, 10, 30)), DatePhrase(At(14, 11, 30))>>,
      \* 11:00-12:00 tomorrow, back to back with it
      <<PointPhrase("tomorrow", 0, 0, TRUE, 11, 0, "am"), DatePhrase(At(14, 12, 0))>>,
      \* eleven days ahead, across the event 10:00-11:00 of that day
      <<DatePhrase(At(24, 10, 30)), DatePhrase(At(24, 11, 30))>>,
      \* today 09:30-09:45, inside the event that began yesterday 23:00
      <<DatePhrase(At(13, 9, 30)), DatePhrase(At(13, 9, 45))>>,
      NextMonday,
      \* both unparsable: the same reference instant twice
      <<Junk, Junk>>,
      \* the end before the start
      <<DatePhrase(At(14, 11, 30)), DatePhrase(At(14, 10, 30))>> }

Summaries == { <<"a", ",", "b">> }

Identifiers ==
    { <<"a", "b">>, <<"B">>, <<"u", "2">>, <<"z">>, <<>>, NoIdentifier }

AnyProposal == <<DatePhrase(At(14, 10, 30)), DatePhrase(At(14, 11, 30))>>

Requests ==
    { Request("read_calendar", GoodConf, r, Junk, Junk, <<>>, Absent, NoIdentifier) :
        r \in RangePhrases }
    \cup
    { Request("check_calendar_conflicts", GoodConf, NoRange, p[1], p[2], <<>>,
              Absent, NoIdentifier) : p \in Proposals }
    \cup
    { Request("create_calendar_event", GoodConf, NoRange, p[1], p[2], s, Absent,
              NoIdentifier) :
        p \in Proposals \ {NextMonday}, s \in Summaries }
    \cup
    { Request(t, GoodConf, NoRange, p[1], p[2], s, f, NoIdentifier) :
        t \in {"create_calendar_event", "force_create_calendar_event"},
        p \in {AnyProposal, <<Junk, Junk>>}, s \in Summaries,
        f \in {"true", "false"} }
    \cup
    { Request("delete_calendar_event", GoodConf, NoRange, Junk, Junk, <<>>,
              Absent, i) : i \in Identifiers }
    \cup
    { Request(t, conf, RangePhrase("today", 0), AnyProposal[1], AnyProposal[2],
              <<"a">>, "false", <<"b">>) :
        t \in {"read_calendar", "check_calendar_conflicts", "create_calendar_event",
               "delete_calendar_event"},
        conf \in BadConfs }

\* ---------------------------------------------------------------- results
\* What an operation returns. site names the return statement; error is the
\* error message ("" when the result carries none); the other fields are
\* those the result objects carry, at their defaults where one carries none.
Result(site, success, error) ==
    [site |-> site, success |-> success, error |-> error,
     hasConflicts |-> FALSE, conflicts |-> <<>>, proposedEvent |-> <<>>,
     events |-> <<>>, count |-> 0, uid |-> <<>>,
     requiresTimezone |-> FALSE, troubleshooting |-> FALSE,
     suggestion |-> FALSE]

NoResult == Result("none", FALSE, "")

\* The message of the error a failed store call throws, and of a ZodError.
StoreError == "store call failed"

ZodError == "invalid calendar configuration"

\* ----------------------------------------------------------------- locals
\* The local variables an operation keeps across its awaits.
NoLocals ==
    [eventStart |-> 0, eventEnd |-> 0,        \* createCalendarEvent
     retries |-> 0, uid |-> <<>>, data |-> <<>>,
     checked |-> NoResult,                    \* what checkCalendarConflicts returned
     chkStart |-> 0, chkEnd |-> 0,            \* checkCalendarConflicts
     timeRange |-> NoRange,                   \* readCalendar
     rangeStart |-> 0, rangeEnd |-> 0,
     eventUrl |-> <<>>, eventToDelete |-> <<>>]  \* deleteCalendarEvent

\* Where a caller stands after a step: its position, locals and result.
Config(pc, loc, res) == [pc |-> pc, loc |-> loc, res |-> res]

Return(l, r) == Config("done", l, r)

\* validateCalendarConfig: CalendarConfigSchema.parse throws unless caldavUrl
\* is a URL, email an address and password a string.
validateCalendarConfig(a) ==
    Truthy(a.caldavUrl) /\ Truthy(a.email) /\ a.password # Absent

\* !config.caldavUrl || !config.email || !config.password
credentialsMissing(a) ==
    ~Truthy(a.caldavUrl) \/ ~Truthy(a.email) \/ ~Truthy(a.password)

\* forceCreate = false by default
forceCreateOf(a) == a.forceCreate = "true"

\* handleCalendarTool passing the force tool's arguments on as they came.
handleCalendarTool_KeepsFlag(a) == a

\* handleCalendarTool: the arguments the tool's function is called with.
handleCalendarTool(a) ==
    IF a.tool = "force_create_calendar_event"
    THEN [a EXCEPT !.forceCreate = "true"]
    ELSE a

\* ------------------------------------------------------- createCalendarEvent
\* The connection loop starts: let retries = 3.
MaxRetries == 3

\* createAfterCheck with the conflict branch lost: it always goes on to connect.
createAfterCheck_IgnoresConflicts(a, l, conflictResult) ==
    Config("cr_connect",
           [l EXCEPT !.checked = conflictResult, !.retries = MaxRetries],
           NoResult)

\* createAfterCheck with the test of conflictResult.success negated.
createAfterCheck_NegatedSuccess(a, l, conflictResult) ==
    IF ~conflictResult.success /\ conflictResult.hasConflicts
    THEN Return([l EXCEPT !.checked = conflictResult],
                [Result("create:conflict", FALSE, "Calendar conflict detected")
                   EXCEPT !.hasConflicts = TRUE])
    ELSE Config("cr_connect",
                [l EXCEPT !.checked = conflictResult, !.retries = MaxRetries],
                NoResult)

\* After the conflict check: return the conflict result, or go on to connect.
createAfterCheck(a, l, conflictResult) ==
    IF conflictResult.success /\ conflictResult.hasConflicts
    THEN Return([l EXCEPT !.checked = conflictResult],
                [Result("create:conflict", FALSE, "Calendar conflict detected")
                   EXCEPT !.hasConflicts = TRUE,
                          !.conflicts = conflictResult.conflicts,
                          !.proposedEvent = conflictResult.proposedEvent])
    ELSE Config("cr_connect",
                [l EXCEPT !.checked = conflictResult, !.retries = MaxRetries],
                NoResult)

\* ---------------------------------------------------- checkCalendarConflicts
\* checkCalendarConflicts returns conflictResult to whoever called it.
checkReturn(a, l, conflictResult) ==
    IF a.tool = "check_calendar_conflicts"
    THEN Return(l, conflictResult)
    ELSE createAfterCheck(a, l, conflictResult)

\* The events of calendarResponse that overlap the proposed interval.
conflictsOf(events, eventStart, eventEnd) ==
    SelectSeq(events,
              LAMBDA event : eventsOverlap(eventStart, eventEnd, event.start, event.end))

\* checkAfterRead without the test of calendarResponse.success.
checkAfterRead_IgnoresFailure(a, l, calendarResponse) ==
    LET conflicts == conflictsOf(calendarResponse.events, l.chkStart, l.chkEnd)
    IN checkReturn(a, l,
          [Result("check:ok", TRUE, "")
             EXCEPT !.hasConflicts = Len(conflicts) > 0,
                    !.proposedEvent = <<l.chkStart, l.chkEnd>>])

\* The code after await readCalendar(...) in checkCalendarConflicts.
checkAfterRead(a, l, calendarResponse) ==
    IF ~calendarResponse.success
    THEN checkReturn(a, l, Result("check:read failed", FALSE, calendarResponse.error))
    ELSE LET conflicts == conflictsOf(calendarResponse.events, l.chkStart, l.chkEnd)
         IN checkReturn(a, l,
               [Result("check:ok", TRUE, "")
                  EXCEPT !.hasConflicts = Len(conflicts) > 0,
                         !.conflicts = [i \in 1..Len(conflicts) |->
                                          [summary |-> conflicts[i].summary,
                                           start |-> conflicts[i].start,
                                           end |-> conflicts[i].end,
                                           uid |-> conflicts[i].uid]],
                         !.proposedEvent = <<l.chkStart, l.chkEnd>>])

\* ------------------------------------------------------------- readCalendar
\* readCalendar returns calendarResponse to whoever called it.
readReturn(a, l, calendarResponse) ==
    IF a.tool = "read_calendar"
    THEN Return(l, calendarResponse)
    ELSE checkAfterRead(a, l, calendarResponse)

\* The catch block of readCalendar.
readCatch(a, l, message) ==
    readReturn(a, l, [Result("read:catch", FALSE, message)
                        EXCEPT !.troubleshooting = TRUE])

\* readChecks without the timezone check.
readChecks_NoTimezone(a) ==
    IF ~validateCalendarConfig(a) THEN "throw"
    ELSE IF credentialsMissing(a) THEN "credentials"
    ELSE "pass"

\* Whether readCalendar's checks let it go on to the store.
readChecks(a) ==
    IF ~validateCalendarConfig(a) THEN "throw"
    ELSE IF credentialsMissing(a) THEN "credentials"
    ELSE IF ~Truthy(a.userTimezone) THEN "timezone"
    ELSE "pass"

\* readCalendar up to its first await.
readEnter(a, l, timeRange) ==
    LET checks == readChecks(a)
    IN CASE checks = "throw" -> readCatch(a, l, ZodError)
         [] checks = "credentials" ->
              readReturn(a, l, Result("read:credentials", FALSE,
                                      "Calendar credentials not provided."))
         [] checks = "timezone" ->
              readReturn(a, l, [Result("read:timezone", FALSE,
                                       "User timezone not specified.")
                                  EXCEPT !.requiresTimezone = TRUE])
         [] OTHER -> Config("rc_connect", [l EXCEPT !.timeRange = timeRange], NoResult)

\* eventOf without the test of parsedEvent.start.
eventOf_NoNullCheck(obj) ==
    LET parsedEvent == parseICalEvent(obj.data)
    IN << [summary |-> IF parsedEvent.hasSummary /\ parsedEvent.summary # <<>>
                       THEN parsedEvent.summary ELSE <<"No Title">>,
           start |-> parsedEvent.start,
           end |-> IF parsedEvent.hasEnd THEN parsedEvent.end
                   ELSE parsedEvent.start,
           uid |-> IF parsedEvent.hasUid THEN parsedEvent.uid ELSE <<>>,
           url |-> obj.url] >>

\* The record readCalendar maps a calendar object to; <<>> stands for null.
eventOf(obj) ==
    LET parsedEvent == parseICalEvent(obj.data)
    IN IF ~parsedEvent.hasStart THEN <<>>
       ELSE << [summary |-> IF parsedEvent.hasSummary /\ parsedEvent.summary # <<>>
                            THEN parsedEvent.summary ELSE <<"No Title">>,
                start |-> parsedEvent.start,
                end |-> IF parsedEvent.hasEnd THEN parsedEvent.end
                        ELSE parsedEvent.start,
                uid |-> IF parsedEvent.hasUid THEN parsedEvent.uid ELSE <<>>,
                url |-> obj.url] >>

RECURSIVE mapEvents(_)
mapEvents(calendarObjects) ==
    IF calendarObjects = <<>> THEN <<>>
    ELSE eventOf(Head(calendarObjects)) \o mapEvents(Tail(calendarObjects))

\* Double-check events are within range.
withinRange(event, rangeStart, rangeEnd) ==
    event.start >= rangeStart /\ event.start <= rangeEnd

\* sortByStart with the sort left out.
sortByStart_Unsorted(events) == events

\* Array.prototype.sort by start: stable, ascending.
RECURSIVE sortByStart(_)
sortByStart(events) ==
    IF events = <<>> THEN <<>>
    ELSE LET first == Head(events)
             rest == sortByStart(Tail(events))
             before == SelectSeq(rest, LAMBDA e : e.start < first.start)
             after == SelectSeq(rest, LAMBDA e : e.start >= first.start)
         IN before \o <<first>> \o after

\* Parse and filter events.
eventsOf(calendarObjects, rangeStart, rangeEnd) ==
    sortByStart(SelectSeq(mapEvents(calendarObjects),
                          LAMBDA event : withinRange(event, rangeStart, rangeEnd)))

\* ---------------------------------------------------- checkCalendarConflicts
\* The text toLocaleDateString gives for the day of the proposed start: a
\* date, with none of parseRelativeDate's keywords in it.
dayString(eventStart) == RangePhrase("other", Day(eventStart))

\* checkCalendarConflicts up to its first await.
checkEnter(a, l, now) ==
    IF ~Truthy(a.userTimezone)
    THEN checkReturn(a, l, Result("check:timezone", FALSE, "User timezone not specified."))
    ELSE LET eventStart == parseDateTime(a.startTime, now)
             eventEnd == parseDateTime(a.endTime, now)
         IN readEnter(a, [l EXCEPT !.chkStart = eventStart, !.chkEnd = eventEnd],
                      dayString(eventStart))

\* ------------------------------------------------------- createCalendarEvent
\* Whether createCalendarEvent's and deleteCalendarEvent's checks let them go on.
configChecks(a) ==
    IF ~validateCalendarConfig(a) THEN "throw"
    ELSE IF credentialsMissing(a) THEN "credentials"
    ELSE IF ~Truthy(a.userTimezone) THEN "timezone"
    ELSE "pass"

\* timesInvalid letting an end equal to the start through.
timesInvalid_Strict(eventStart, eventEnd) == eventEnd < eventStart

\* Validate times: the request is rejected when this holds.
timesInvalid(eventStart, eventEnd) == eventEnd <= eventStart

\* The catch block of createCalendarEvent.
createCatch(l, message) ==
    Return(l, [Result("create:catch", FALSE, message) EXCEPT !.troubleshooting = TRUE])

\* createCalendarEvent up to its first await.
createEnter(a, l, now) ==
    LET checks == configChecks(a)
        eventStart == parseDateTime(a.startTime, now)
        eventEnd == parseDateTime(a.endTime, now)
        l1 == [l EXCEPT !.eventStart = eventStart, !.eventEnd = eventEnd]
    IN CASE checks = "throw" -> createCatch(l, ZodError)
         [] checks = "credentials" ->
              Return(l, Result("create:credentials", FALSE,
                               "Calendar credentials not provided."))
         [] checks = "timezone" ->
              Return(l, [Result("create:timezone", FALSE, "User timezone not specified.")
                           EXCEPT !.requiresTimezone = TRUE])
         [] OTHER ->
              IF timesInvalid(eventStart, eventEnd)
              THEN Return(l1, Result("create:times", FALSE,
                                     "End time must be after start time"))
              ELSE IF ~forceCreateOf(a)
              THEN checkEnter(a, l1, now)
              ELSE Config("cr_connect", [l1 EXCEPT !.retries = MaxRetries], NoResult)

\* ------------------------------------------------------- deleteCalendarEvent
\* The catch block of deleteCalendarEvent.
deleteCatch(l, message) ==
    Return(l, [Result("delete:catch", FALSE, message) EXCEPT !.troubleshooting = TRUE])

\* deleteCalendarEvent up to its first await.
deleteEnter(a, l) ==
    LET checks == configChecks(a)
    IN CASE checks = "throw" -> deleteCatch(l, ZodError)
         [] checks = "credentials" ->
              Return(l, Result("delete:credentials", FALSE,
                               "Calendar credentials not provided."))
         [] checks = "timezone" ->
              Return(l, [Result("delete:timezone", FALSE, "User timezone not specified.")
                           EXCEPT !.requiresTimezone = TRUE])
         [] OTHER -> Config("dl_connect", l, NoResult)

\* Whether the scan's test accepts the parsed event, or throws: "yes", "no"
\* or "throw" (toLowerCase of an undefined identifier).
matches(parsedEvent, eventIdentifier) ==
    IF eventIdentifier = NoIdentifier
    THEN IF ~parsedEvent.hasUid THEN "yes"
         ELSE IF parsedEvent.hasSummary THEN "throw" ELSE "no"
    ELSE IF parsedEvent.hasUid /\ parsedEvent.uid = eventIdentifier THEN "yes"
         ELSE IF parsedEvent.hasSummary
                 /\ includes(toLowerCase(parsedEvent.summary),
                             toLowerCase(eventIdentifier))
              THEN "yes"
              ELSE "no"

\* findEvent keeping the last object the test accepts (a scan with no break).
findEvent_Last(calendarObjects, eventIdentifier, i) ==
    LET S == {k \in i..Len(calendarObjects) :
                matches(parseICalEvent(calendarObjects[k].data), eventIdentifier) = "yes"}
    IN IF S = {} THEN 0 ELSE CHOOSE k \in S : \A j \in S : j <= k

\* Find the event by UID or summary: the index of the first object the scan
\* accepts, 0 when it accepts none, -1 when the test throws before that.
RECURSIVE findEvent(_, _, _)
findEvent(calendarObjects, eventIdentifier, i) ==
    IF i > Len(calendarObjects) THEN 0
    ELSE LET m == matches(parseICalEvent(calendarObjects[i].data), eventIdentifier)
         IN CASE m = "yes" -> i
              [] m = "throw" -> -1
              [] OTHER -> findEvent(calendarObjects, eventIdentifier, i + 1)

\* deleteAfterFetch without the not-found guard.
deleteAfterFetch_NoGuard(a, l, calendarObjects) ==
    LET i == findEvent(calendarObjects, a.eventIdentifier, 1)
    IN IF i = -1 THEN deleteCatch(l, "Cannot read properties of undefined")
       ELSE Config("dl_delete",
                   [l EXCEPT !.eventUrl = IF i = 0 THEN <<>>
                                          ELSE calendarObjects[i].url],
                   NoResult)

\* The code after await fetchCalendarObjects in deleteCalendarEvent.
deleteAfterFetch(a, l, calendarObjects) ==
    LET i == findEvent(calendarObjects, a.eventIdentifier, 1)
    IN CASE i = -1 -> deleteCatch(l, "Cannot read properties of undefined")
         [] i = 0 ->
              Return(l, [Result("delete:not found", FALSE, "Event not found.")
                           EXCEPT !.suggestion = TRUE])
         [] OTHER ->
              Config("dl_delete",
                     [l EXCEPT !.eventUrl = calendarObjects[i].url,
                               !.eventToDelete =
                                   <<parseICalEvent(calendarObjects[i].data)>>],
                     NoResult)

\* ------------------------------------------------------------------ entry
\* The tool's function up to its first await.
enter(a0, now) ==
    LET a == handleCalendarTool(a0)
    IN CASE a.tool = "read_calendar" -> readEnter(a, NoLocals, a.timeRange)
         [] a.tool = "check_calendar_conflicts" -> checkEnter(a, NoLocals, now)
         [] a.tool = "delete_calendar_event" -> deleteEnter(a, NoLocals)
         [] OTHER -> createEnter(a, NoLocals, now)

\* ------------------------------------------------------------------ state
VARIABLES
    store,    \* the objects of the first calendar, in the order the store returns them
    now,      \* the clock new Date() reads
    ticks,    \* how often the clock has advanced
    created,  \* how many objects the callers have created
    op,       \* per caller: the request it is serving
    pc,       \* per caller: "idle", the await it stands at, or "done"
    loc,      \* per caller: the operation's local variables
    res,      \* per caller: the result returned
    log,      \* per caller: the store calls of the operation, in order
    eval      \* a helper function called on its own: its name, arguments and value

vars == <<store, now, ticks, created, op, pc, loc, res, log, eval>>

\* No helper function is being called on its own.
NoEval == [fn |-> "none"]

NoRequest == Request("none", GoodConf, NoRange, Junk, Junk, <<>>, Absent, NoIdentifier)

\* One store call of an operation: the function that made it, the call, how
\* it ended, and the locator or file name it was given.
Call(by, call, ok, arg) == [by |-> by, call |-> call, ok |-> ok, arg |-> arg]

Init ==
    /\ store \in InitialStores
    /\ now = StartInstant
    /\ ticks = 0
    /\ created = 0
    /\ op = [c \in Callers |-> NoRequest]
    /\ pc = [c \in Callers |-> "idle"]
    /\ loc = [c \in Callers |-> NoLocals]
    /\ res = [c \in Callers |-> NoResult]
    /\ log = [c \in Callers |-> <<>>]
    /\ eval = NoEval

\* The caller moves to cfg, having made the store call (or none: <<>>).
Move(c, cfg, calls) ==
    /\ pc' = [pc EXCEPT ![c] = cfg.pc]
    /\ loc' = [loc EXCEPT ![c] = cfg.loc]
    /\ res' = [res EXCEPT ![c] = cfg.res]
    /\ log' = [log EXCEPT ![c] = @ \o calls]

Args(c) == handleCalendarTool(op[c])

IsCreate(a) ==
    a.tool \in {"create_calendar_event", "force_create_calendar_event"}

\* A caller invokes a tool.
Invoke(c) ==
    /\ pc[c] = "idle"
    /\ \E a \in Requests :
         /\ IsCreate(a) => created < MaxCreates
         /\ op' = [op EXCEPT ![c] = a]
         /\ pc' = [pc EXCEPT ![c] = enter(a, now).pc]
         /\ loc' = [loc EXCEPT ![c] = enter(a, now).loc]
         /\ res' = [res EXCEPT ![c] = enter(a, now).res]
         /\ log' = [log EXCEPT ![c] = <<>>]
    /\ UNCHANGED <<store, now, ticks, eval, created>>

\* readCalendar: await createDAVClient(...)
ReadConnect(c) ==
    /\ pc[c] = "rc_connect"
    /\ \E ok \in BOOLEAN :
         Move(c,
              IF ok THEN Config("rc_calendars", loc[c], NoResult)
              ELSE readCatch(Args(c), loc[c], StoreError),
              <<Call("read", "connect", ok, <<>>)>>)
    /\ UNCHANGED <<store, now, ticks, eval, created, op>>

\* readCalendar: await client.fetchCalendars(), then the range of the query
ReadFetchCalendars(c) ==
    /\ pc[c] = "rc_calendars"
    /\ \/ Move(c, readCatch(Args(c), loc[c], StoreError),
               <<Call("read", "listCalendars", FALSE, <<>>)>>)
       \/ Move(c, readReturn(Args(c), loc[c],
                             Result("read:no calendars", FALSE, "No calendars found")),
               <<Call("read", "listCalendars", TRUE, <<"0">>)>>)
       \/ LET range == parseRelativeDate(loc[c].timeRange, now)
          IN Move(c, Config("rc_fetch",
                            [loc[c] EXCEPT !.rangeStart = range.start,
                                           !.rangeEnd = range.end],
                            NoResult),
                  <<Call("read", "listCalendars", TRUE, <<"1">>)>>)
    /\ UNCHANGED <<store, now, ticks, eval, created, op>>

\* The objects the store returns for a time-range query: those the filter
\* selects, or (a server that ignores the filter) all of them.
queryResults(range) ==
    { SelectSeq(store, LAMBDA obj : inTimeRange(obj, range)), store }

\* readCalendar: await client.fetchCalendarObjects(...), then parse, filter, sort
ReadFetchObjects(c) ==
    /\ pc[c] = "rc_fetch"
    /\ \/ Move(c, readCatch(Args(c), loc[c], StoreError),
               <<Call("read", "fetchObjects", FALSE, <<>>)>>)
       \/ \E calendarObjects \in
               queryResults([start |-> loc[c].rangeStart, end |-> loc[c].rangeEnd]) :
             LET events == eventsOf(calendarObjects, loc[c].rangeStart, loc[c].rangeEnd)
             IN Move(c, readReturn(Args(c), loc[c],
                                   [Result("read:ok", TRUE, "")
                                      EXCEPT !.events = events,
                                             !.count = Len(events)]),
                     <<Call("read", "fetchObjects", TRUE, <<>>)>>)
    /\ UNCHANGED <<store, now, ticks, eval, created, op>>

\* createConnectFailed giving up one failure late.
createConnectFailed_OffByOne(l) ==
    IF l.retries = 0
    THEN Return(l, [Result("create:catch", FALSE, StoreError)
                      EXCEPT !.troubleshooting = TRUE])
    ELSE Config("cr_backoff", [l EXCEPT !.retries = @ - 1], NoResult)

\* What follows a failed connection attempt of createCalendarEvent.
createConnectFailed(l) ==
    IF l.retries - 1 = 0
    THEN createCatch([l EXCEPT !.retries = 0], StoreError)
    ELSE Config("cr_backoff", [l EXCEPT !.retries = @ - 1], NoResult)

\* createCalendarEvent: await createDAVClient(...) inside the retry loop
CreateConnect(c) ==
    /\ pc[c] = "cr_connect"
    /\ \E ok \in BOOLEAN :
         Move(c,
              IF ok THEN Config("cr_calendars", loc[c], NoResult)
              ELSE createConnectFailed(loc[c]),
              <<Call("create", "connect", ok, <<>>)>>)
    /\ UNCHANGED <<store, now, ticks, eval, created, op>>

\* CreateBackoff with a timer that never fires.
CreateBackoff_NeverWakes(c) ==
    /\ pc[c] = "cr_backoff"
    /\ UNCHANGED vars

\* createCalendarEvent: await new Promise(resolve => setTimeout(resolve, 1000))
CreateBackoff(c) ==
    /\ pc[c] = "cr_backoff"
    /\ Move(c, Config("cr_connect", loc[c], NoResult),
            <<Call("create", "wait", TRUE, <<>>)>>)
    /\ UNCHANGED <<store, now, ticks, eval, created, op>>

\* The UIDs createCalendarEvent generates: `${Date.now()}-${random}@ai-calendar`,
\* one per object created, the random part telling two callers apart.
generatedUid(n) == <<"g", <<"0", "1", "2", "3", "4", "5", "6", "7", "8", "9">>[n + 1]>>

randomPart(c) == <<c>>

\* fileName with one fixed name for every object.
fileName_Fixed(uid) == <<"event", ".ics">>

\* filename: `${uid}.ics`
fileName(uid) == uid \o <<".ics">>

\* createCalendarEvent: await client.fetchCalendars(), then the UID and the text
CreateFetchCalendars(c) ==
    /\ pc[c] = "cr_calendars"
    /\ \/ Move(c, createCatch(loc[c], StoreError),
               <<Call("create", "listCalendars", FALSE, <<>>)>>)
       \/ Move(c, Return(loc[c], Result("create:no calendars", FALSE, "No calendars found")),
               <<Call("create", "listCalendars", TRUE, <<"0">>)>>)
       \/ LET a == Args(c)
              uid == generatedUid(created) \o randomPart(c)
          IN Move(c, Config("cr_create",
                            [loc[c] EXCEPT
                               !.uid = uid,
                               \* description = "", location = "", attendees = []
                               !.data = eventData(uid, <<a.email>>, a.summary,
                                                  loc[c].eventStart, loc[c].eventEnd,
                                                  <<>>, <<>>, <<>>)],
                            NoResult),
                  <<Call("create", "listCalendars", TRUE, <<"1">>)>>)
    /\ UNCHANGED <<store, now, ticks, eval, created, op>>

\* CreateObject with the call inside the retry loop of the connection.
CreateObject_InRetryLoop(c) ==
    /\ pc[c] = "cr_create"
    /\ \/ /\ Move(c, createConnectFailed(loc[c]),
                  <<Call("create", "createObject", FALSE, fileName(loc[c].uid))>>)
          /\ UNCHANGED <<store, created>>
       \/ /\ store' = Append(store, Object(fileName(loc[c].uid), loc[c].data))
          /\ created' = created + 1
          /\ Move(c, Return(loc[c], [Result("create:ok", TRUE, "")
                                       EXCEPT !.uid = loc[c].uid]),
                  <<Call("create", "createObject", TRUE, fileName(loc[c].uid))>>)
    /\ UNCHANGED <<now, ticks, op, eval>>

\* createCalendarEvent: await client.createCalendarObject(...)
CreateObject(c) ==
    /\ pc[c] = "cr_create"
    /\ \/ /\ Move(c, createCatch(loc[c], StoreError),
                  <<Call("create", "createObject", FALSE, fileName(loc[c].uid))>>)
          /\ UNCHANGED <<store, created>>
       \/ /\ store' = Append(store, Object(fileName(loc[c].uid), loc[c].data))
          /\ created' = created + 1
          /\ Move(c, Return(loc[c], [Result("create:ok", TRUE, "")
                                       EXCEPT !.uid = loc[c].uid]),
                  <<Call("create", "createObject", TRUE, fileName(loc[c].uid))>>)
    /\ UNCHANGED <<now, ticks, eval, op>>

\* deleteCalendarEvent: await createDAVClient(...)
DeleteConnect(c) ==
    /\ pc[c] = "dl_connect"
    /\ \E ok \in BOOLEAN :
         Move(c,
              IF ok THEN Config("dl_calendars", loc[c], NoResult)
              ELSE deleteCatch(loc[c], StoreError),
              <<Call("delete", "connect", ok, <<>>)>>)
    /\ UNCHANGED <<store, now, ticks, eval, created, op>>

\* deleteCalendarEvent: await client.fetchCalendars()
DeleteFetchCalendars(c) ==
    /\ pc[c] = "dl_calendars"
    /\ \/ Move(c, deleteCatch(loc[c], StoreError),
               <<Call("delete", "listCalendars", FALSE, <<>>)>>)
       \/ Move(c, Return(loc[c], Result("delete:no calendars", FALSE, "No calendars found")),
               <<Call("delete", "listCalendars", TRUE, <<"0">>)>>)
       \/ Move(c, Config("dl_fetch", loc[c], NoResult),
               <<Call("delete", "listCalendars", TRUE, <<"1">>)>>)
    /\ UNCHANGED <<store, now, ticks, eval, created, op>>

\* deleteCalendarEvent: await client.fetchCalendarObjects({calendar}), then the scan
DeleteFetchObjects(c) ==
    /\ pc[c] = "dl_fetch"
    /\ \/ Move(c, deleteCatch(loc[c], StoreError),
               <<Call("delete", "fetchObjects", FALSE, <<>>)>>)
       \/ Move(c, deleteAfterFetch(Args(c), loc[c], store),
               <<Call("delete", "fetchObjects", TRUE, <<>>)>>)
    /\ UNCHANGED <<store, now, ticks, eval, created, op>>

\* without taking every object away.
without_All(objects, url) == SelectSeq(objects, LAMBDA obj : FALSE)

\* The store without the object at the locator.
without(objects, url) == SelectSeq(objects, LAMBDA obj : obj.url # url)

\* DeleteObject answering success whether or not the call came back.
DeleteObject_SwallowsError(c) ==
    /\ pc[c] = "dl_delete"
    /\ \/ /\ Move(c, Return(loc[c], [Result("delete:ok", TRUE, "")
                                       EXCEPT !.uid = loc[c].eventToDelete[1].uid]),
                  <<Call("delete", "deleteObject", FALSE, loc[c].eventUrl)>>)
          /\ UNCHANGED store
       \/ /\ \E i \in 1..Len(store) : store[i].url = loc[c].eventUrl
          /\ store' = without(store, loc[c].eventUrl)
          /\ Move(c, Return(loc[c], [Result("delete:ok", TRUE, "")
                                       EXCEPT !.uid = loc[c].eventToDelete[1].uid]),
                  <<Call("delete", "deleteObject", TRUE, loc[c].eventUrl)>>)
    /\ UNCHANGED <<now, ticks, eval, created, op>>

\* deleteCalendarEvent: await client.deleteCalendarObject(...)
DeleteObject(c) ==
    /\ pc[c] = "dl_delete"
    /\ \/ /\ Move(c, deleteCatch(loc[c], StoreError),
                  <<Call("delete", "deleteObject", FALSE, loc[c].eventUrl)>>)
          /\ UNCHANGED store
       \/ /\ \E i \in 1..Len(store) : store[i].url = loc[c].eventUrl
          /\ store' = without(store, loc[c].eventUrl)
          /\ Move(c, Return(loc[c], [Result("delete:ok", TRUE, "")
                                       EXCEPT !.uid = loc[c].eventToDelete[1].uid]),
                  <<Call("delete", "deleteObject", TRUE, loc[c].eventUrl)>>)
    /\ UNCHANGED <<now, ticks, eval, created, op>>

\* The caller has its result; the operation's state is gone.
Finish(c) ==
    /\ pc[c] = "done"
    /\ op' = [op EXCEPT ![c] = NoRequest]
    /\ pc' = [pc EXCEPT ![c] = "idle"]
    /\ loc' = [loc EXCEPT ![c] = NoLocals]
    /\ res' = [res EXCEPT ![c] = NoResult]
    /\ log' = [log EXCEPT ![c] = <<>>]
    /\ UNCHANGED <<store, now, ticks, eval, created>>

\* A day passes.
Tick ==
    /\ ticks < MaxTicks
    /\ ticks' = ticks + 1
    /\ now' = now + MinutesPerDay
    /\ UNCHANGED <<store, created, op, pc, loc, res, log, eval>>

Step(c) ==
    \/ ReadConnect(c) \/ ReadFetchCalendars(c) \/ ReadFetchObjects(c)
    \/ CreateConnect(c) \/ CreateBackoff(c) \/ CreateFetchCalendars(c)
    \/ CreateObject(c)
    \/ DeleteConnect(c) \/ DeleteFetchCalendars(c) \/ DeleteFetchObjects(c)
    \/ DeleteObject(c)
    \/ Finish(c)

\* One caller, one operation at a time.
Caller == "c1"

Next == Invoke(Caller) \/ Step(Caller) \/ Tick

Spec == Init /\ [][Next]_vars

\* The awaits of an operation: a store call that returns or throws, or the
\* timer of the backoff firing.
AwaitStep(c) ==
    \/ ReadConnect(c) \/ ReadFetchCalendars(c) \/ ReadFetchObjects(c)
    \/ CreateConnect(c) \/ CreateBackoff(c) \/ CreateFetchCalendars(c)
    \/ CreateObject(c)
    \/ DeleteConnect(c) \/ DeleteFetchCalendars(c) \/ DeleteFetchObjects(c)
    \/ DeleteObject(c)

\* The same program where every store call returns in the end, with success
\* or with failure, and every timer fires: an operation standing at an await
\* is resumed.
SpecLive == Init /\ [][Next]_vars /\ WF_vars(AwaitStep(Caller))

\* ------------------------------------------------- two concurrent callers
\* Two callers, each serving one non-forced Create, their awaits interleaved.
ConcurrentStores ==
    {<<>>} \cup {<<obj>> : obj \in {o \in ObjectPool : o.url = <<"/", "1">>}}

\* 10:30-11:30 and 11:00-12:00 tomorrow: the two overlap each other.
ConcurrentProposals ==
    { <<DatePhrase(At(14, 10, 30)), DatePhrase(At(14, 11, 30))>>,
      <<DatePhrase(At(14, 11, 0)), DatePhrase(At(14, 12, 0))>> }

ConcurrentRequests ==
    { Request("create_calendar_event", GoodConf, NoRange, d[1], d[2], s, Absent, NoIdentifier) :
        d \in ConcurrentProposals, s \in Summaries }

InitConcurrent ==
    /\ store \in ConcurrentStores
    /\ now = StartInstant
    /\ ticks = 0
    /\ created = 0
    /\ op = [c \in Callers |-> NoRequest]
    /\ pc = [c \in Callers |-> "idle"]
    /\ loc = [c \in Callers |-> NoLocals]
    /\ res = [c \in Callers |-> NoResult]
    /\ log = [c \in Callers |-> <<>>]
    /\ eval = NoEval

InvokeCreate(c) ==
    /\ pc[c] = "idle"
    /\ \E a \in ConcurrentRequests :
         /\ op' = [op EXCEPT ![c] = a]
         /\ pc' = [pc EXCEPT ![c] = enter(a, now).pc]
         /\ loc' = [loc EXCEPT ![c] = enter(a, now).loc]
         /\ res' = [res EXCEPT ![c] = enter(a, now).res]
         /\ log' = [log EXCEPT ![c] = <<>>]
    /\ UNCHANGED <<store, now, ticks, eval, created>>

StepCreate(c) ==
    \/ ReadConnect(c) \/ ReadFetchCalendars(c) \/ ReadFetchObjects(c)
    \/ CreateConnect(c) \/ CreateBackoff(c) \/ CreateFetchCalendars(c)
    \/ CreateObject(c)

NextConcurrent == \E c \in Callers : InvokeCreate(c) \/ StepCreate(c)

SpecConcurrent == InitConcurrent /\ [][NextConcurrent]_vars

\* ------------------------------------------- helper functions on their own
\* A helper function is called once with arguments drawn from a bounded set.
Eval(fn, args) == [fn |-> fn, args |-> args, done |-> FALSE]

\* The instants eventsOverlap is called with.
OverlapInstants == 0..MaxInstant

OverlapCalls ==
    { Eval("eventsOverlap", <<s1, e1, s2, e2>>) :
        s1 \in OverlapInstants, e1 \in OverlapInstants,
        s2 \in OverlapInstants, e2 \in OverlapInstants }

\* The events that are encoded and decoded again.
RoundTripTexts ==
    { <<"a">>, <<"a", ",", "b">>, <<"a", ";">>, <<"\\", "a">>, <<"a", "\n", "b">> }

RoundTripAttendees == { <<>>, << <<"r", "@", "x">> >> }

RoundTripCalls ==
    { Eval("roundTrip",
           [summary |-> s, start |-> At(14, 10, 0), end |-> At(14, 11, 0),
            description |-> d, location |-> l, attendees |-> t]) :
        s \in RoundTripTexts, d \in RoundTripTexts \cup {<<>>},
        l \in RoundTripTexts \cup {<<>>}, t \in RoundTripAttendees }

\* The addresses attendee lists are made of.
AddressPool ==
    { <<"j", "o", "h", "n", "@", "e", "x", "a", "m", "p", "l", "e", ".", "c", "o", "m">>,
      <<"r", "e", "a", "l", ".", "p", "e", "r", "s", "o", "n", "@", "a", "c", "m", "e", ".", "i", "o">>,
      <<" ", "a", "@", "b", ".", "i", "o", " ">>,
      <<"n", "o", "-", "a", "t">>,
      <<"J", "o", "h", "n", "@", "a", "c", "m", "e", ".", "i", "o">>,
      <<"x", "@", "E", "X", "A", "M", "P", "L", "E", ".", "O", "R", "G">>,
      <<"d", "e", "m", "o", "@", "b", ".", "i", "o">>,
      <<"b", "@", "e", "m", "a", "i", "l", ".", "c", "o", "m">> }

RECURSIVE AttendeeLists(_)
AttendeeLists(n) ==
    IF n = 0 THEN {<<>>}
    ELSE AttendeeLists(n - 1) \cup
         { Append(l, a) : l \in {x \in AttendeeLists(n - 1) : Len(x) = n - 1},
                          a \in AddressPool }

AttendeeCalls == { Eval("validAttendees", l) : l \in AttendeeLists(MaxAttendees) }

\* The phrases and reference instants parseRelativeDate is called with: one
\* phrase for each branch, and days at the start, the middle and the end of a
\* month, Sundays and Mondays among them, at three times of day.
ResolvePhrases ==
    { RangePhrase(k, 0) :
        k \in {"today", "tomorrow", "this week", "next week", "this month",
               "next month", "other"} }
    \cup { RangePhrase("next N days", n) : n \in 0..MaxDays }

ReferenceInstants ==
    { At(d, t[1], t[2]) : d \in {0, 12, 13, 19, 30, 31},
                          t \in {<<0, 0>>, <<9, 0>>, <<23, 59>>} }

ResolveCalls ==
    { Eval("parseRelativeDate", [input |-> p, referenceDate |-> r]) :
        p \in ResolvePhrases, r \in ReferenceInstants }

\* The phrases parseDateTime is called with: "tomorrow" with every hour H,
\* with and without minutes, with "am", "pm" or neither, and with no time at
\* all; "next <weekday>" for every weekday on each day of a week, with and
\* without a time.
TimePhrases ==
    { PointPhrase("tomorrow", 0, 0, TRUE, h, m, ap) :
        h \in 0..MaxHour, m \in {0, 30}, ap \in {"am", "pm", "none"} }
    \cup { PointPhrase("tomorrow", 0, 0, FALSE, 0, 0, "none") }

WeekdayPhrases ==
    { PointPhrase("next", 0, wd, TRUE, t[1], t[2], t[3]) :
        wd \in 0..6,
        t \in {<<10, 0, "am">>, <<3, 30, "pm">>, <<12, 0, "none">>} }
    \cup { PointPhrase("next", 0, wd, FALSE, 0, 0, "none") : wd \in 0..6 }

PointCalls ==
    { Eval("parseDateTime", [input |-> p, referenceDate |-> StartInstant]) :
        p \in TimePhrases }
    \cup
    { Eval("parseDateTime", [input |-> p, referenceDate |-> At(d, t[1], t[2])]) :
        p \in WeekdayPhrases, d \in 12..18, t \in {<<9, 0>>, <<23, 59>>} }

PureCalls == OverlapCalls \cup RoundTripCalls \cup AttendeeCalls \cup ResolveCalls

InitPure ==
    /\ store = <<>>
    /\ now = StartInstant
    /\ ticks = 0
    /\ created = 0
    /\ op = [c \in Callers |-> NoRequest]
    /\ pc = [c \in Callers |-> "idle"]
    /\ loc = [c \in Callers |-> NoLocals]
    /\ res = [c \in Callers |-> NoResult]
    /\ log = [c \in Callers |-> <<>>]
    /\ \/ eval \in PureCalls
       \/ eval \in PointCalls

\* The call returns (or throws): eval holds what came of it.
Returns(fields) ==
    /\ ~eval.done
    /\ eval' = [k \in DOMAIN eval \cup DOMAIN fields |->
                  IF k \in DOMAIN fields THEN fields[k] ELSE eval[k]]
    /\ UNCHANGED <<store, now, ticks, created, op, pc, loc, res, log>>

ApplyEventsOverlap ==
    /\ eval.fn = "eventsOverlap"
    /\ Returns([done |-> TRUE,
                out |-> eventsOverlap(eval.args[1], eval.args[2],
                                      eval.args[3], eval.args[4])])

\* createCalendarEvent's eventData for the event, read back by parseICalEvent.
ApplyRoundTrip ==
    /\ eval.fn = "roundTrip"
    /\ LET e == eval.args
       IN Returns([done |-> TRUE,
                   out |-> parseICalEvent(
                              eventData(generatedUid(0), <<"o", "@", "x">>, e.summary,
                                        e.start, e.end, e.description, e.location,
                                        e.attendees))])

ApplyValidAttendees ==
    /\ eval.fn = "validAttendees"
    /\ Returns([done |-> TRUE, out |-> validAttendees(eval.args)])

ApplyParseRelativeDate ==
    /\ eval.fn = "parseRelativeDate"
    /\ Returns([done |-> TRUE,
                out |-> parseRelativeDate(eval.args.input, eval.args.referenceDate)])

ApplyParseDateTime ==
    /\ eval.fn = "parseDateTime"
    /\ Returns([done |-> TRUE,
                out |-> parseDateTime(eval.args.input, eval.args.referenceDate)])

NextPure ==
    \/ ApplyEventsOverlap
    \/ ApplyRoundTrip
    \/ ApplyValidAttendees
    \/ ApplyParseRelativeDate
    \/ ApplyParseDateTime

SpecPure == InitPure /\ [][NextPure]_vars

\* ----------------------------------------------------------------- claims
\* The store calls of a log (the backoff sleeps left out).
StoreCalls(l) == SelectSeq(l, LAMBDA e : e.call # "wait")

CallsOf(l, by, call) == SelectSeq(l, LAMBDA e : e.by = by /\ e.call = call)

Called(l, call) == \E i \in 1..Len(l) : l[i].call = call

\* Every store call so far succeeded and every calendar listing was non-empty.
NoStoreFailure(l) == \A i \in 1..Len(l) : l[i].ok /\ l[i].arg # <<"0">>

SomeCallFailed(l) == \E i \in 1..Len(l) : ~l[i].ok

\* The request passes the configuration and timezone checks.
ConfigGiven(a) ==
    Truthy(a.caldavUrl) /\ Truthy(a.email) /\ Truthy(a.password)
    /\ Truthy(a.userTimezone)

NonForcedCreate(c) ==
    op[c].tool = "create_calendar_event" /\ op[c].forceCreate # "true"

ForcedCreate(c) ==
    op[c].tool = "force_create_calendar_event"
    \/ (op[c].tool = "create_calendar_event" /\ op[c].forceCreate = "true")

\* The interval of a stored object, when its text gives one.
HasInterval(obj) == parseICalEvent(obj.data).hasStart

IntervalStart(obj) == parseICalEvent(obj.data).start

IntervalEnd(obj) ==
    IF parseICalEvent(obj.data).hasEnd THEN parseICalEvent(obj.data).end
    ELSE parseICalEvent(obj.data).start

\* C1: a non-forced Create whose conflict check succeeded and reported at
\* least one conflict has returned the conflict result (success=false,
\* hasConflicts=true, the conflict list, the proposed event) and has made no
\* createObject call.
C1_ConflictResultAndNoWrite ==
    \A c \in Callers :
        (NonForcedCreate(c) /\ loc[c].checked.success /\ loc[c].checked.hasConflicts)
        => /\ pc[c] = "done"
           /\ res[c].success = FALSE
           /\ res[c].hasConflicts = TRUE
           /\ Len(res[c].conflicts) >= 1
           /\ res[c].conflicts = loc[c].checked.conflicts
           /\ res[c].proposedEvent = <<loc[c].eventStart, loc[c].eventEnd>>
           /\ ~Called(log[c], "createObject")

C1_Witness ==
    \E c \in Callers :
        /\ NonForcedCreate(c)
        /\ pc[c] = "done"
        /\ loc[c].checked.success /\ loc[c].checked.hasConflicts
        /\ res[c].hasConflicts

\* C2: in a run without store failures, a non-forced Create whose proposed
\* interval overlaps an event stored in the calendar gets past its conflict
\* check only with the conflict result, and never calls createObject,
\* wherever the proposed start lies.
C2_OverlapAlwaysDetected ==
    \A c \in Callers :
        ( /\ NonForcedCreate(c)
          /\ ConfigGiven(op[c])
          /\ loc[c].eventStart < loc[c].eventEnd
          /\ NoStoreFailure(log[c])
          /\ \E i \in 1..Len(store) :
                /\ HasInterval(store[i])
                /\ store[i].url # fileName(loc[c].uid)
                /\ loc[c].eventStart < IntervalEnd(store[i])
                /\ loc[c].eventEnd > IntervalStart(store[i]) )
        => /\ ~Called(log[c], "createObject")
           /\ \/ pc[c] \in {"rc_connect", "rc_calendars", "rc_fetch"}
              \/ pc[c] = "done" /\ res[c].hasConflicts /\ ~res[c].success

\* C3: a forced Create (forceCreate=true, or the force_create_calendar_event
\* tool whatever forceCreate it is given) runs no conflict check and makes no
\* fetchObjects call; with valid input and no store failure it has called
\* createObject when it returns, overlapping events or not.
C3_ForceSkipsCheckAndWrites ==
    \A c \in Callers :
        ForcedCreate(c)
        => /\ loc[c].checked = NoResult
           /\ ~Called(log[c], "fetchObjects")
           /\ \A i \in 1..Len(log[c]) : log[c][i].by = "create"
           /\ ( /\ pc[c] = "done"
                /\ ConfigGiven(op[c])
                /\ loc[c].eventStart < loc[c].eventEnd
                /\ NoStoreFailure(log[c]) )
              => /\ res[c].success
                 /\ Len(CallsOf(log[c], "create", "createObject")) = 1

C3_Witness ==
    \E c \in Callers :
        /\ op[c].tool = "force_create_calendar_event"
        /\ op[c].forceCreate = "false"
        /\ pc[c] = "done"
        /\ res[c].success
        /\ Called(log[c], "createObject")
        /\ \E i \in 1..Len(store) :
              /\ HasInterval(store[i])
              /\ store[i].url # fileName(loc[c].uid)
              /\ loc[c].eventStart < IntervalEnd(store[i])
              /\ loc[c].eventEnd > IntervalStart(store[i])

\* The connection attempts and sleeps of Create's retry loop, in order.
Acquisition(c) ==
    SelectSeq(log[c], LAMBDA e : e.by = "create" /\ e.call \in {"connect", "wait"})

FailedAttempts(q) == Len(SelectSeq(q, LAMBDA e : e.call = "connect" /\ ~e.ok))

\* C4: Create's connection loop attempts connect at most 3 times; it sleeps
\* after a failed attempt exactly when another attempt follows (never after
\* a success, never after the third failure); no attempt follows a success;
\* when all 3 attempts fail the operation returns a failure and createObject
\* is never called.
C4_ConnectionRetry ==
    \A c \in Callers :
        LET q == Acquisition(c)
        IN /\ Len(CallsOf(q, "create", "connect")) <= 3
           /\ \A i \in 1..Len(q) :
                /\ q[i].call = "wait"
                   => /\ i > 1 /\ q[i - 1].call = "connect" /\ ~q[i - 1].ok
                      /\ IF i < Len(q) THEN q[i + 1].call = "connect"
                         ELSE pc[c] = "cr_connect"
                /\ (q[i].call = "connect" /\ q[i].ok) => i = Len(q)
                /\ (q[i].call = "connect" /\ ~q[i].ok)
                   => IF FailedAttempts(SubSeq(q, 1, i)) < 3
                      THEN IF i < Len(q) THEN q[i + 1].call = "wait"
                           ELSE pc[c] = "cr_backoff"
                      ELSE i = Len(q)
           /\ FailedAttempts(q) = 3
              => /\ pc[c] = "done"
                 /\ ~res[c].success
                 /\ res[c].error # ""
                 /\ ~Called(log[c], "createObject")
                 /\ log[c][Len(log[c])].call = "connect"

C4_Witness ==
    \E c \in Callers :
        /\ pc[c] = "done"
        /\ FailedAttempts(Acquisition(c)) = 3
        /\ Len(CallsOf(log[c], "create", "wait")) = 2

C6_MissingConfigShortCircuits ==
    \A c \in Callers :
        (op[c].tool # "none" /\ ~ConfigGiven(op[c]))
        => /\ pc[c] = "done"
           /\ ~res[c].success
           /\ res[c].error # ""
           /\ log[c] = <<>>

C6_Witness ==
    \E c \in Callers :
        /\ op[c].tool = "check_calendar_conflicts"
        /\ Truthy(op[c].userTimezone)
        /\ ~Truthy(op[c].password)
        /\ pc[c] = "done"
        /\ log[c] = <<>>

\* C7: a Create whose resolved end is not after its resolved start, forced or
\* not, has returned a failure and has made no store call.
C7_EndNotAfterStartRejected ==
    \A c \in Callers :
        (IsCreate(op[c]) /\ ConfigGiven(op[c]) /\ loc[c].eventEnd <= loc[c].eventStart)
        => /\ pc[c] = "done"
           /\ ~res[c].success
           /\ res[c].error # ""
           /\ loc[c].checked = NoResult
           /\ log[c] = <<>>

C7_Witness ==
    \E c \in Callers :
        /\ ForcedCreate(c)
        /\ op[c].startTime = Junk /\ op[c].endTime = Junk
        /\ loc[c].eventStart = loc[c].eventEnd
        /\ pc[c] = "done"
        /\ ~res[c].success

\* C8: a Delete called with an empty or missing identifier never calls
\* deleteObject.
C8_NoDeleteWithoutIdentifier ==
    \A c \in Callers :
        ( /\ op[c].tool = "delete_calendar_event"
          /\ op[c].eventIdentifier \in {<<>>, NoIdentifier} )
        => ~Called(log[c], "deleteObject")

\* Whether a stored object matches the identifier: its UID is the identifier,
\* or its title contains the identifier, letter case aside.
Matching(obj, identifier) ==
    LET ev == parseICalEvent(obj.data)
    IN \/ ev.hasUid /\ ev.uid = identifier
       \/ /\ ev.hasSummary
          /\ \E i \in 0..(Len(ev.summary) - Len(identifier)) :
                \A k \in 1..Len(identifier) :
                    toLowerChar(ev.summary[i + k]) = toLowerChar(identifier[k])

MatchingIndices(objects, identifier) ==
    {i \in 1..Len(objects) : Matching(objects[i], identifier)}

\* The objects but the one at index i.
AllBut(objects, i) ==
    [k \in 1..(Len(objects) - 1) |-> IF k < i THEN objects[k] ELSE objects[k + 1]]

\* C9: when several stored objects match the identifier, Delete goes on to
\* deleteObject with the locator of the first of them in store order, calls
\* it once, and a successful call removes that object and no other.
C9_DeletesFirstMatch ==
    [][ \A c \in Callers :
          LET m == MatchingIndices(store, op[c].eventIdentifier)
              first == CHOOSE i \in m : \A j \in m : i <= j
          IN ( /\ op[c].tool = "delete_calendar_event"
               /\ op[c].eventIdentifier # NoIdentifier
               /\ Cardinality(m) >= 2 )
             => /\ ( /\ pc[c] = "dl_fetch"
                     /\ pc'[c] # "dl_fetch"
                     /\ log'[c][Len(log'[c])].ok )
                   => /\ pc'[c] = "dl_delete"
                      /\ loc'[c].eventUrl = store[first].url
                      /\ store' = store
                /\ pc[c] = "dl_delete"
                   => /\ loc[c].eventUrl = store[first].url
                      /\ pc'[c] \in {"dl_delete", "done"}
                      /\ pc'[c] = "done"
                         => /\ Len(CallsOf(log'[c], "delete", "deleteObject")) = 1
                            /\ log'[c][Len(log'[c])].arg = store[first].url
                            /\ store' = IF res'[c].success THEN AllBut(store, first)
                                        ELSE store
      ]_vars

C9_Witness ==
    \E c \in Callers :
        /\ op[c].tool = "delete_calendar_event"
        /\ op[c].eventIdentifier # NoIdentifier
        /\ pc[c] = "done"
        /\ res[c].success
        /\ Len(CallsOf(log[c], "delete", "deleteObject")) = 1
        /\ MatchingIndices(store, op[c].eventIdentifier) # {}

\* C10: when no stored object matches the identifier, Delete returns the
\* not-found result (success=false, with the suggestion), calls deleteObject
\* never and leaves the store as it is.
C10_NotFound ==
    [][ \A c \in Callers :
          ( /\ op[c].tool = "delete_calendar_event"
            /\ op[c].eventIdentifier # NoIdentifier
            /\ MatchingIndices(store, op[c].eventIdentifier) = {}
            /\ pc[c] = "dl_fetch"
            /\ pc'[c] # "dl_fetch"
            /\ log'[c][Len(log'[c])].ok )
          => /\ pc'[c] = "done"
             /\ ~res'[c].success
             /\ res'[c].suggestion
             /\ res'[c].error # ""
             /\ ~res'[c].troubleshooting
             /\ ~Called(log'[c], "deleteObject")
             /\ store' = store
      ]_vars

C10_Witness ==
    \E c \in Callers :
        /\ op[c].tool = "delete_calendar_event"
        /\ op[c].eventIdentifier = <<"z">>
        /\ pc[c] = "done"
        /\ res[c].suggestion
        /\ Len(store) >= 1
        /\ Called(log[c], "fetchObjects")

\* Whether the store holds the object a Create wrote.
Wrote(c) ==
    /\ IsCreate(op[c])
    /\ \E i \in 1..Len(store) : store[i].url = fileName(loc[c].uid)

\* Two non-forced Creates have both written, for intervals that overlap.
DoubleBooked(c, d) ==
    /\ c # d
    /\ NonForcedCreate(c) /\ NonForcedCreate(d)
    /\ Wrote(c) /\ Wrote(d)
    /\ eventsOverlap(loc[c].eventStart, loc[c].eventEnd,
                     loc[d].eventStart, loc[d].eventEnd)

\* C11: conflict checking is advisory. The only guard of a non-forced Create
\* is its own earlier check: a Create that has called createObject had a
\* check that reported no conflict (or failed), and two callers whose checks
\* both ran before either write both write, double-booking the slot; nothing
\* else holds a write back.
C11_CheckIsAdvisory ==
    \A c \in Callers :
        (NonForcedCreate(c) /\ Called(log[c], "createObject"))
        => /\ ~(loc[c].checked.success /\ loc[c].checked.hasConflicts)
           /\ \A d \in Callers :
                DoubleBooked(c, d)
                => ~(loc[d].checked.success /\ loc[d].checked.hasConflicts)

C11_Witness ==
    \E c, d \in Callers :
        /\ DoubleBooked(c, d)
        /\ pc[c] = "done" /\ pc[d] = "done"
        /\ res[c].success /\ res[d].success
        /\ loc[c].checked.success /\ ~loc[c].checked.hasConflicts
        /\ loc[d].checked.success /\ ~loc[d].checked.hasConflicts
        /\ NoStoreFailure(log[c]) /\ NoStoreFailure(log[d])

\* C12: eventsOverlap(a, b) is (a.start < b.end and a.end > b.start): false
\* whenever a ends no later than b starts, and the same with a and b swapped.
C12_OverlapsDefinition ==
    (eval.fn = "eventsOverlap" /\ eval.done)
    => LET aStart == eval.args[1]
           aEnd == eval.args[2]
           bStart == eval.args[3]
           bEnd == eval.args[4]
       IN /\ eval.out = (aStart < bEnd /\ aEnd > bStart)
          /\ aEnd <= bStart => ~eval.out
          /\ eval.out = eventsOverlap(bStart, bEnd, aStart, aEnd)

\* Two back-to-back events, the first ending when the second starts.
C12_Witness ==
    /\ eval.fn = "eventsOverlap" /\ eval.done
    /\ eval.args[1] < eval.args[2]
    /\ eval.args[2] = eval.args[3]
    /\ eval.args[3] < eval.args[4]
    /\ ~eval.out

\* Whether the decoded record holds text as a field, an absent field standing
\* for the empty text.
Recovers(has, field, text) ==
    IF text = <<>> THEN (~has \/ field = <<>>) ELSE (has /\ field = text)

\* C13: decoding the text that encoding an event produced recovers the
\* event's summary, start, end, location, description and attendees.
C13_RoundTrip ==
    (eval.fn = "roundTrip" /\ eval.done)
    => LET e == eval.args
           d == eval.out
       IN /\ Recovers(d.hasSummary, d.summary, e.summary)
          /\ d.hasStart /\ d.start = e.start
          /\ d.hasEnd /\ d.end = e.end
          /\ Recovers(d.hasLocation, d.location, e.location)
          /\ Recovers(d.hasDescription, d.description, e.description)
          /\ (e.attendees # <<>> => d.hasAttendees)

\* The claim's test of one trimmed address, letter case aside: it contains
\* '@', ends in none of the deny-listed domains and starts with none of the
\* placeholder local-parts.
Acceptable(address) ==
    LET lower == [i \in 1..Len(address) |-> toLowerChar(address[i])]
        n == Len(lower)
    IN /\ \E i \in 1..n : address[i] = "@"
       /\ \A d \in exampleDomains :
             \/ Len(d) > n
             \/ \E k \in 1..Len(d) : lower[n - Len(d) + k] # d[k]
       /\ \A p \in examplePatterns :
             \/ Len(p) > n
             \/ \E k \in 1..Len(p) : lower[k] # p[k]

\* The positions of the list whose trimmed address the claim keeps.
KeptPositions(list) == {i \in 1..Len(list) : Acceptable(trim(list[i]))}

JohnExample == <<"j", "o", "h", "n", "@", "e", "x", "a", "m", "p", "l", "e", ".", "c", "o", "m">>

RealPerson == <<"r", "e", "a", "l", ".", "p", "e", "r", "s", "o", "n", "@", "a", "c", "m", "e", ".", "i", "o">>

ListSucceeded(c) ==
    op[c].tool = "read_calendar" /\ pc[c] = "done" /\ res[c].success

\* C15: in every successful List result each event has a start, decoded from
\* a stored object, that lies within the range listed; the events are in
\* ascending order of start; count is their number.
C15_ListResultInvariants ==
    \A c \in Callers :
        ListSucceeded(c)
        => LET events == res[c].events
           IN /\ \A i \in 1..Len(events) :
                    /\ loc[c].rangeStart <= events[i].start
                    /\ events[i].start <= loc[c].rangeEnd
                    /\ \E k \in 1..Len(store) :
                          /\ store[k].url = events[i].url
                          /\ parseICalEvent(store[k].data).hasStart
                          /\ parseICalEvent(store[k].data).start = events[i].start
              /\ \A i, j \in 1..Len(events) :
                    i < j => events[i].start <= events[j].start
              /\ res[c].count = Len(events)

\* Two events listed that the store holds in the other order, and a stored
\* object that is not listed.
C15_Witness ==
    \E c \in Callers :
        /\ ListSucceeded(c)
        /\ res[c].count = 2
        /\ Len(store) = 2
        /\ store[1].url = res[c].events[2].url
        /\ res[c].events[1].start < res[c].events[2].start

\* An object whose text does not decode into a valid event: no start.
Malformed(obj) == ~parseICalEvent(obj.data).hasStart

\* A List all of whose store calls went through, on a calendar that exists.
ListFetched(c) ==
    /\ op[c].tool = "read_calendar"
    /\ pc[c] = "done"
    /\ \E i \in 1..Len(log[c]) : log[c][i].call = "fetchObjects" /\ log[c][i].ok

Listed(c, obj) == \E i \in 1..Len(res[c].events) : res[c].events[i].url = obj.url

\* C16: a List whose store calls went through succeeds whatever objects the
\* store holds: a malformed object is left out of the result and every
\* well-formed object that starts inside the range is in it.
C16_MalformedObjectDropped ==
    \A c \in Callers :
        ListFetched(c)
        => /\ res[c].success
           /\ \A k \in 1..Len(store) :
                 /\ Malformed(store[k]) => ~Listed(c, store[k])
                 /\ ( /\ ~Malformed(store[k])
                      /\ loc[c].rangeStart < IntervalStart(store[k])
                      /\ IntervalStart(store[k]) < loc[c].rangeEnd )
                    => Listed(c, store[k])

C16_Witness ==
    \E c \in Callers :
        /\ ListFetched(c)
        /\ res[c].success
        /\ res[c].count = 1
        /\ \E k \in 1..Len(store) : Malformed(store[k])

Resolved == eval.fn = "parseRelativeDate" /\ eval.done

\* C17: for every phrase and reference instant parseRelativeDate returns a
\* range with start <= end, the start at 00:00:00.000 and the end at
\* 23:59:59.999 of a day; for a phrase with "today" in it both lie on the
\* day of the reference instant.
C17_ResolveRangeShape ==
    Resolved
    => /\ eval.out.start <= eval.out.end
       /\ eval.out.start % MinutesPerDay = 0
       /\ eval.out.end % MinutesPerDay = MinutesPerDay - 1
       /\ eval.args.input.kind = "today"
          => /\ eval.out.start \div MinutesPerDay
                   = eval.args.referenceDate \div MinutesPerDay
             /\ eval.out.end \div MinutesPerDay
                   = eval.args.referenceDate \div MinutesPerDay

\* "today" resolved at 09:00 of a day.
C17_Witness ==
    /\ Resolved
    /\ eval.args.input.kind = "today"
    /\ eval.args.referenceDate = At(13, 9, 0)
    /\ eval.out.start = At(13, 0, 0)
    /\ eval.out.end = At(13, 23, 59)

\* C18: "next N days" resolves to a range that starts at the midnight of the
\* reference day and ends N days later at day granularity; 7 for N = 7.
C18_NextNDays ==
    (Resolved /\ eval.args.input.kind = "next N days")
    => /\ eval.out.start = (eval.args.referenceDate \div MinutesPerDay) * MinutesPerDay
       /\ (eval.out.end \div MinutesPerDay) - (eval.out.start \div MinutesPerDay)
             = eval.args.input.n

\* "next 7 days" resolved on the last day of a month.
C18_Witness ==
    /\ Resolved
    /\ eval.args.input = RangePhrase("next N days", 7)
    /\ eval.args.referenceDate = At(30, 23, 59)
    /\ eval.out.start = At(30, 0, 0)
    /\ eval.out.end = At(37, 23, 59)

\* A conflict check, called as a tool or by a non-forced Create, that has
\* resolved the range it lists.
CheckListing(c) ==
    /\ op[c].tool \in {"check_calendar_conflicts", "create_calendar_event"}
    /\ pc[c] = "rc_fetch"

\* C19: the range checkCalendarConflicts lists is the calendar day of the
\* proposed start, from its midnight to its 23:59:59.999.
C19_ChecksTheDayOfTheStart ==
    \A c \in Callers :
        CheckListing(c)
        => /\ loc[c].rangeStart = (loc[c].chkStart \div MinutesPerDay) * MinutesPerDay
           /\ loc[c].rangeEnd = loc[c].rangeStart + (MinutesPerDay - 1)

\* The positions in a caller's log of createCalendarEvent's own calls.
CreateCallAt(c, i, call) ==
    log[c][i].by = "create" /\ log[c][i].call = call

\* C20: whenever Create has called createObject, a connect of it succeeded
\* and its listCalendars returned a calendar before; the name given is
\* <uid>.ics, uid being the UID in the text written and, on success, the uid
\* of the result and of the object the calendar now holds. When
\* listCalendars returns no calendar, Create fails without createObject.
C20_WriteFollowsConnectAndList ==
    \A c \in Callers :
        IsCreate(op[c])
        => /\ \A k \in 1..Len(log[c]) :
                 CreateCallAt(c, k, "createObject")
                 => /\ \E i, j \in 1..(k - 1) :
                          /\ i < j
                          /\ CreateCallAt(c, i, "connect") /\ log[c][i].ok
                          /\ CreateCallAt(c, j, "listCalendars") /\ log[c][j].ok
                          /\ log[c][j].arg = <<"1">>
                    /\ log[c][k].arg = loc[c].uid \o <<".ics">>
                    /\ parseICalEvent(loc[c].data).hasUid
                    /\ parseICalEvent(loc[c].data).uid = loc[c].uid
                    /\ log[c][k].ok
                       => /\ pc[c] = "done" /\ res[c].success
                          /\ res[c].uid = loc[c].uid
                          /\ \E n \in 1..Len(store) :
                                /\ store[n].url = loc[c].uid \o <<".ics">>
                                /\ store[n].data = loc[c].data
           /\ (\E j \in 1..Len(log[c]) :
                  /\ CreateCallAt(c, j, "listCalendars")
                  /\ log[c][j].ok /\ log[c][j].arg = <<"0">>)
              => /\ pc[c] = "done"
                 /\ ~res[c].success
                 /\ ~Called(log[c], "createObject")

C20_Witness ==
    \E c \in Callers :
        /\ IsCreate(op[c])
        /\ pc[c] = "done"
        /\ res[c].success
        /\ res[c].uid = loc[c].uid
        /\ \E n \in 1..Len(store) : store[n].url = loc[c].uid \o <<".ics">>
        /\ Len(CallsOf(log[c], "create", "connect")) >= 2

\* The calls of one kind in a caller's log, whoever made them.
CallsNamed(c, call) == SelectSeq(log[c], LAMBDA e : e.call = call)

\* C21: one operation calls createObject at most once and deleteObject at
\* most once; when the call fails the operation has ended with a failure
\* result, the call not tried again.
C21_WriteCallsNotRetried ==
    \A c \in Callers :
        /\ Len(CallsNamed(c, "createObject")) <= 1
        /\ Len(CallsNamed(c, "deleteObject")) <= 1
        /\ \A call \in {"createObject", "deleteObject"} :
              (Len(CallsNamed(c, call)) = 1 /\ ~CallsNamed(c, call)[1].ok)
              => /\ pc[c] = "done"
                 /\ ~res[c].success
                 /\ res[c].error # ""
                 /\ log[c][Len(log[c])].call = call

\* A Create whose connection was retried and whose createObject then failed.
C21_Witness ==
    \E c \in Callers :
        /\ IsCreate(op[c])
        /\ pc[c] = "done"
        /\ Len(CallsOf(log[c], "create", "connect")) = 2
        /\ Len(CallsNamed(c, "createObject")) = 1
        /\ ~CallsNamed(c, "createObject")[1].ok
        /\ ~res[c].success

\* A store call of the conflict check's List has failed.
CheckCallFailed(c) ==
    \E i \in 1..Len(log[c]) : log[c][i].by = "read" /\ ~log[c][i].ok

\* C22: when a store call of the conflict check of a non-forced Create
\* fails, Create has returned a failure result and makes no connection
\* attempt and no createObject call of its own.
C22_FailedCheckFailsCreate ==
    \A c \in Callers :
        (NonForcedCreate(c) /\ CheckCallFailed(c))
        => /\ pc[c] = "done"
           /\ ~res[c].success
           /\ \A i \in 1..Len(log[c]) : log[c][i].by # "create"

\* The DTSTART line of an object in the date-only form, 0 when it has none.
DateOnlyLine(obj) ==
    LET i == LastLine(obj.data, "DTSTART")
    IN IF i # 0 /\ obj.data[i].params = "VALUE=DATE"
                /\ obj.data[i].date.form = "dateonly"
       THEN i ELSE 0

\* C23: an object whose DTSTART is in the date-only form decodes to a start
\* at the midnight of that date, and a List over a range that holds that
\* midnight returns the event.
C23_DateOnlyStartDecoded ==
    \A k \in 1..Len(store) :
        DateOnlyLine(store[k]) # 0
        => LET day == store[k].data[DateOnlyLine(store[k])].date.t \div MinutesPerDay
               decoded == parseICalEvent(store[k].data)
           IN /\ decoded.hasStart
              /\ decoded.start = day * MinutesPerDay
              /\ \A c \in Callers :
                    ( /\ ListFetched(c)
                      /\ loc[c].rangeStart <= day * MinutesPerDay
                      /\ day * MinutesPerDay <= loc[c].rangeEnd )
                    => Listed(c, store[k])

PointResolved == eval.fn = "parseDateTime" /\ eval.done

\* The hour the 12-hour rules give for H written with am, pm or neither.
HourByRule(h, ap) ==
    CASE h = 12 /\ ap = "am" -> 0
      [] h = 12 /\ ap = "pm" -> 12
      [] h # 12 /\ ap = "pm" -> h + 12
      [] OTHER -> h

\* C24: a time of day H[:MM][am|pm] in a phrase resolves to the hour the
\* 12-hour rules give (12am is 0, 12pm is 12, another H with pm is H + 12,
\* H with am or with no suffix is H) and to minute MM, 0 when none is given.
C24_TimeOfDay ==
    (PointResolved /\ eval.args.input.hasTime /\ eval.args.input.kind = "tomorrow")
    => LET p == eval.args.input
           day == (eval.args.referenceDate \div MinutesPerDay) + 1
       IN eval.out = day * MinutesPerDay + HourByRule(p.h, p.ap) * 60 + p.m

\* C25: "next W [time]" resolves to a day that is weekday W, 1 to 7 days
\* after the reference day, 7 when the reference day is a W, at the time of
\* day the phrase gives; next Monday 10 AM on Monday 2025-07-14 is
\* 2025-07-21 10:00.
C25_NextWeekday ==
    (PointResolved /\ eval.args.input.kind = "next")
    => LET p == eval.args.input
           refDay == eval.args.referenceDate \div MinutesPerDay
           outDay == eval.out \div MinutesPerDay
       IN /\ (outDay + 2) % 7 = p.wd
          /\ outDay - refDay \in 1..7
          /\ (refDay + 2) % 7 = p.wd => outDay - refDay = 7
          /\ p.hasTime
             => eval.out % MinutesPerDay = HourByRule(p.h, p.ap) * 60 + p.m
          /\ ( /\ eval.args.referenceDate = At(13, 9, 0)
               /\ p = PointPhrase("next", 0, 1, TRUE, 10, 0, "am") )
             => eval.out = At(20, 10, 0)

\* C26: a Create called with the URL, the user name, the password or the
\* timezone missing, in any combination, returns one of the two validation
\* results (credentials not provided, timezone not specified) and not the
\* result of a failed store call, which carries the troubleshooting hints.
C26_ValidationResultDistinct ==
    \A c \in Callers :
        (IsCreate(op[c]) /\ ~ConfigGiven(op[c]) /\ pc[c] = "done")
        => /\ res[c].site \in {"create:credentials", "create:timezone"}
           /\ ~res[c].troubleshooting

\* The operation made the write call exactly once and the call came back
\* without an error.
WroteOnce(c, call) ==
    Len(CallsNamed(c, call)) = 1 /\ CallsNamed(c, call)[1].ok

HasUid(obj, identifier) ==
    parseICalEvent(obj.data).hasUid /\ parseICalEvent(obj.data).uid = identifier

OneRemoved(s, t) ==
    /\ Len(t) = Len(s) - 1
    /\ \E i \in 1..Len(s) : t = AllBut(s, i)

\* C29: List and CheckConflicts call neither createObject nor deleteObject and
\* leave the store as it is; Create never calls deleteObject and changes the
\* store only by adding one object, at its one createObject call; Delete never
\* calls createObject and changes the store only by taking one object out, at
\* its one deleteObject call. This holds whether the store calls succeed or
\* fail.
C29_FrameOfOperations ==
    [][ \A c \in Callers :
          /\ op[c].tool \in {"read_calendar", "check_calendar_conflicts"}
             => /\ store' = store
                /\ ~Called(log'[c], "createObject")
                /\ ~Called(log'[c], "deleteObject")
          /\ IsCreate(op[c])
             => /\ ~Called(log'[c], "deleteObject")
                /\ Len(CallsNamed(c, "createObject")) <= 1
                /\ \/ store' = store
                   \/ /\ \E obj \in {store'[Len(store')]} : store' = Append(store, obj)
                      /\ CallsNamed(c, "createObject") = <<>>
                      /\ log'[c][Len(log'[c])].call = "createObject"
          /\ op[c].tool = "delete_calendar_event"
             => /\ ~Called(log'[c], "createObject")
                /\ Len(CallsNamed(c, "deleteObject")) <= 1
                /\ \/ store' = store
                   \/ /\ OneRemoved(store, store')
                      /\ CallsNamed(c, "deleteObject") = <<>>
                      /\ log'[c][Len(log'[c])].call = "deleteObject"
      ]_vars

\* A Delete has taken one of two objects out of the store: the other one is
\* still there.
C29_Witness ==
    \E c \in Callers :
        /\ op[c].tool = "delete_calendar_event"
        /\ pc[c] = "done"
        /\ res[c].success
        /\ Len(store) = MaxInitObjects - 1
        /\ Len(store) >= 1

\* The kinds of result a Create ends with.
ValidationFailure(r) ==
    r.site \in {"create:credentials", "create:timezone", "create:times"}

ConflictResult(r) == r.site = "create:conflict" /\ r.hasConflicts

StoreFailure(r) == r.site = "create:catch" /\ r.troubleshooting /\ ~r.success

SuccessResult(r) == r.site = "create:ok" /\ r.success

NoCalendars(r) == r.site = "create:no calendars" /\ ~r.success

\* How many of the predicates hold of the result.
HowMany(r, kinds) == Cardinality({k \in DOMAIN kinds : kinds[k]})

FourKinds(r) ==
    <<ValidationFailure(r), ConflictResult(r), StoreFailure(r), SuccessResult(r)>>

FiveKinds(r) == Append(FourKinds(r), NoCalendars(r))

\* C30 as stated: when every store call returns in the end, a Create returns
\* a result whatever store calls fail, and the result is exactly one of a
\* validation failure, a conflict, a store failure and a success.
C30_CreateReturnsOneOfFour ==
    \A c \in Callers :
        IsCreate(op[c])
        ~> (pc[c] = "done" /\ IsCreate(op[c])
            /\ HowMany(res[c], FourKinds(res[c])) = 1)

\* C30, amended: when every store call returns in the end, a Create returns a
\* result whatever store calls fail, and the result is exactly one of a
\* validation failure, a conflict, a store failure, a success and the failure
\* "No calendars found" of a store that lists no calendar.
C30_CreateReturns ==
    \A c \in Callers :
        IsCreate(op[c])
        ~> (pc[c] = "done" /\ IsCreate(op[c])
            /\ HowMany(res[c], FiveKinds(res[c])) = 1)

\* A Create whose three connection attempts all failed has returned.
C30_Witness ==
    \E c \in Callers :
        /\ IsCreate(op[c])
        /\ pc[c] = "done"
        /\ Len(CallsOf(log[c], "create", "connect")) = MaxRetries
        /\ \A i \in 1..MaxRetries : ~CallsOf(log[c], "create", "connect")[i].ok
        /\ StoreFailure(res[c])

====
